---- MODULE Spec2Model ----
(***************************************************************************)
(* Model of the image-resizer session store (src/lib/store.ts) and of the  *)
(* dialog component that drives it                                         *)
(* (src/lib/components/image-resizer-dialog.tsx).                          *)
(*                                                                         *)
(* The store is a zustand store: every action runs to completion on the    *)
(* single UI thread.  The dialog's handleSave is an async function: it     *)
(* runs up to an await, is suspended, and resumes later as a separate      *)
(* step; other steps may run in between.                                   *)
(*                                                                         *)
(* Followed on their own, each under a specification of its own: the       *)
(* crop-rect computation and the canvas compositing of the canvas-based    *)
(* save handlers (SpecGeometry, SpecCompositor), and the earlier provider  *)
(* with the store and the dialog it was written for (SpecProvider).  The   *)
(* dialog with the interaction engine's state followed is SpecEngine, and  *)
(* the program where URL.revokeObjectURL throws is SpecThrowing.           *)
(***************************************************************************)
EXTENDS Integers, FiniteSets, Sequences, Bags, TLC

(***************************************************************************)
(* Bounds of the model.                                                    *)
(***************************************************************************)
MaxSessions == 2
MaxHandles == 1
MaxTasks == 1

(***************************************************************************)
(* Values.                                                                 *)
(***************************************************************************)
Null == "null"
Undefined == "undefined"
EmptyObject == "{}"
NoPromise == 0
NoGeometry == [crop |-> Null]
NoRaster == [output |-> Null]

Urls == {"", "a.jpg"}
\* options?.classNames and options?.config of a call: both omitted, or both given.
OptionsArgs == {[classNames |-> Undefined, config |-> Undefined],
                [classNames |-> "cn", config |-> "cfg"]}
CropDatas == {"cd1", "cd2"}

\* What the config object "cfg" holds (the one of the documented example);
\* the empty config holds neither field.
imageFormat(cfg) == IF cfg = "cfg" THEN "image/jpeg" ELSE Undefined
imageQuality(cfg) == IF cfg = "cfg" THEN "0.85" ELSE Undefined

PromiseIds == 1..MaxSessions
\* Object URLs: those the dialog creates, and one the application made itself.
AppHandles == {0}
Handles == AppHandles \cup 1..MaxHandles

ErrNoImageUrl == "No image URL provided"
ErrGetCropped == "Failed to get cropped image from Zag API"
ErrNoBlob == "Failed to create blob from cropped image"
ErrNoCropData == "Failed to extract crop data from Zag API"
ErrUserCancelled == "User cancelled the resize operation"
ErrThrown == "thrown"
ErrApp == "Cancelled"

VARIABLES
    isOpen,          \* store.isOpen
    imageUrl,        \* store.imageUrl
    classNames,      \* store.classNames
    config,          \* store.config
    pendingResolve,  \* store.pendingResolve: the promise whose resolve it is
    pendingReject,   \* store.pendingReject: the promise whose reject it is
    blobUrls,        \* store.blobUrls
    promise,         \* the promises returned by open()
    revoked,         \* the object URLs passed to URL.revokeObjectURL
    created,         \* number of object URLs made by URL.createObjectURL
    rendered,        \* what the dialog's last committed render read from the store
    tasks,           \* suspended handleSave invocations: where each is suspended
                     \* (pc), the promise that was pending when it started (origin)
                     \* and the engine state its cropped image was made from (image)
    encoded,         \* the type and quality of the blob behind each object URL made
    geometry,        \* a run of the save handler's crop-rect computation
    raster,          \* a run of the save handler's canvas compositing
    engine,          \* the interaction engine's state: what api.getCropData() returns
    throwing         \* the object URLs for which URL.revokeObjectURL throws

\* The computations of the canvas-based save handlers, followed on their own.
calc == <<geometry, raster>>

\* What lies outside the store and the dialog's own code.
outside == <<engine, throwing>>

vars == <<isOpen, imageUrl, classNames, config, pendingResolve, pendingReject,
          blobUrls, promise, revoked, created, rendered, tasks, encoded, calc, outside>>

(***************************************************************************)
(* Promises.  A promise is settled by the first call of its resolve or     *)
(* reject function; later calls are counted and otherwise ignored.         *)
(***************************************************************************)
Uncreated == [state |-> "uncreated", value |-> [type |-> "none"], calls |-> 0]
Pending == [state |-> "pending", value |-> [type |-> "none"], calls |-> 0]

StringValue(h) == [type |-> "string", str |-> h]
ResultValue(h, cd) == [type |-> "object", blobUrl |-> h, cropData |-> cd]
ErrorValue(msg) == [type |-> "error", message |-> msg]

Settle(pr, newState, v) ==
    [state |-> IF pr.state = "pending" THEN newState ELSE pr.state,
     value |-> IF pr.state = "pending" THEN v ELSE pr.value,
     calls |-> pr.calls + 1]

NextPromise(w) == 1 + Cardinality({p \in PromiseIds : w.promise[p].state # "uncreated"})

(***************************************************************************)
(* The world the store actions act on: the store's fields, the promises    *)
(* whose callbacks it holds, and the browser's object-URL registry.        *)
(***************************************************************************)
World ==
    [isOpen |-> isOpen, imageUrl |-> imageUrl, classNames |-> classNames,
     config |-> config, pendingResolve |-> pendingResolve,
     pendingReject |-> pendingReject, blobUrls |-> blobUrls,
     promise |-> promise, revoked |-> revoked]

Becomes(w) ==
    /\ isOpen' = w.isOpen
    /\ imageUrl' = w.imageUrl
    /\ classNames' = w.classNames
    /\ config' = w.config
    /\ pendingResolve' = w.pendingResolve
    /\ pendingReject' = w.pendingReject
    /\ blobUrls' = w.blobUrls
    /\ promise' = w.promise
    /\ revoked' = w.revoked

(***************************************************************************)
(* Store actions (store.ts), as functions from world to world.             *)
(***************************************************************************)
\* revokeBlobUrls that revokes the tracked URLs but goes on tracking them.
revokeBlobUrlsKeepsSet(w) ==
    [w EXCEPT !.revoked = @ \cup (w.blobUrls \ throwing)]

\* revokeBlobUrls without the try/catch around each URL.revokeObjectURL: the
\* first throw leaves forEach, and set({ blobUrls: new Set() }) is not reached.
revokeBlobUrlsUncaught(w) ==
    IF w.blobUrls \cap throwing = {}
    THEN [w EXCEPT !.revoked = @ \cup w.blobUrls,
                   !.blobUrls = {}]
    ELSE w

\* Each URL.revokeObjectURL is in a try/catch of its own (lines 146-152): a
\* URL whose revocation throws stays live, the others are revoked, and the
\* set is replaced by an empty one in any case.
revokeBlobUrls(w) ==
    [w EXCEPT !.revoked = @ \cup (w.blobUrls \ throwing),
              !.blobUrls = {}]

OrEmpty(arg) == IF arg = Undefined THEN EmptyObject ELSE arg

\* open that does not call revokeBlobUrls first.
openKeepsBlobUrls(w, url, cn, cfg) ==
    LET p == NextPromise(w)
    IN [w EXCEPT !.isOpen = TRUE,
                 !.imageUrl = url,
                 !.classNames = OrEmpty(cn),
                 !.config = OrEmpty(cfg),
                 !.pendingResolve = p,
                 !.pendingReject = p,
                 !.promise[p] = Pending]

\* open that falls back to the previous overrides where an argument is omitted.
openKeepsOverrides(w, url, cn, cfg) ==
    LET w1 == revokeBlobUrls(w)
        p == NextPromise(w)
    IN [w1 EXCEPT !.isOpen = TRUE,
                  !.imageUrl = url,
                  !.classNames = IF cn = Undefined THEN w.classNames ELSE cn,
                  !.config = IF cfg = Undefined THEN w.config ELSE cfg,
                  !.pendingResolve = p,
                  !.pendingReject = p,
                  !.promise[p] = Pending]

open(w, url, cn, cfg) ==
    LET w1 == revokeBlobUrls(w)
        p == NextPromise(w)
    IN [w1 EXCEPT !.isOpen = TRUE,
                  !.imageUrl = url,
                  !.classNames = OrEmpty(cn),
                  !.config = OrEmpty(cfg),
                  !.pendingResolve = p,
                  !.pendingReject = p,
                  !.promise[p] = Pending]

\* close that hides the dialog but keeps the continuations of the session.
closeKeepsCallbacks(w) ==
    [w EXCEPT !.isOpen = FALSE,
              !.imageUrl = Null]

close(w) ==
    [w EXCEPT !.isOpen = FALSE,
              !.imageUrl = Null,
              !.pendingResolve = NoPromise,
              !.pendingReject = NoPromise]

\* save that resolves but keeps the callbacks it has just used.
saveKeepsCallbacks(w, blobUrl) ==
    LET w1 == IF w.pendingResolve # NoPromise
              THEN [w EXCEPT !.promise[w.pendingResolve] =
                                 Settle(@, "fulfilled", StringValue(blobUrl))]
              ELSE w
    IN [w1 EXCEPT !.isOpen = FALSE,
                  !.imageUrl = Null]

save(w, blobUrl) ==
    LET w1 == IF w.pendingResolve # NoPromise
              THEN [w EXCEPT !.promise[w.pendingResolve] =
                                 Settle(@, "fulfilled", StringValue(blobUrl))]
              ELSE w
    IN [w1 EXCEPT !.isOpen = FALSE,
                  !.imageUrl = Null,
                  !.pendingResolve = NoPromise,
                  !.pendingReject = NoPromise]

\* cancel that rejects and closes but leaves the tracked URLs alone.
cancelKeepsBlobUrls(w, error) ==
    LET w1 == IF w.pendingReject # NoPromise
              THEN [w EXCEPT !.promise[w.pendingReject] =
                                 Settle(@, "rejected", ErrorValue(error))]
              ELSE w
    IN [w1 EXCEPT !.isOpen = FALSE,
                  !.imageUrl = Null,
                  !.pendingResolve = NoPromise,
                  !.pendingReject = NoPromise]

cancel(w, error) ==
    LET w1 == IF w.pendingReject # NoPromise
              THEN [w EXCEPT !.promise[w.pendingReject] =
                                 Settle(@, "rejected", ErrorValue(error))]
              ELSE w
        w2 == revokeBlobUrls(w1)
    IN [w2 EXCEPT !.isOpen = FALSE,
                  !.imageUrl = Null,
                  !.pendingResolve = NoPromise,
                  !.pendingReject = NoPromise]

addBlobUrl(w, blobUrl) ==
    [w EXCEPT !.blobUrls = @ \cup {blobUrl}]

(***************************************************************************)
(* Initial state: the store as created, the dialog mounted and closed.     *)
(***************************************************************************)
Snapshot(w) == [isOpen |-> w.isOpen]

Started ==
    /\ isOpen = FALSE
    /\ imageUrl = Null
    /\ classNames = EmptyObject
    /\ config = EmptyObject
    /\ pendingResolve = NoPromise
    /\ pendingReject = NoPromise
    /\ blobUrls = {}
    /\ promise = [p \in PromiseIds |-> Uncreated]
    /\ revoked = {}
    /\ created = 0
    /\ rendered = [isOpen |-> FALSE]
    /\ tasks = EmptyBag
    /\ encoded = <<>>
    /\ geometry = NoGeometry
    /\ raster = NoRaster
    /\ engine = "cd1"

\* In a browser URL.revokeObjectURL does not throw.
Init == Started /\ throwing = {}

(***************************************************************************)
(* Calls of the exported API: resizeImage / useImageResizer call open;     *)
(* the store itself is exported, so its other actions can be called too.   *)
(* An application that tracks a URL of its own tracks a live one.          *)
(***************************************************************************)
resizeImage(url, options) ==
    /\ NextPromise(World) <= MaxSessions
    /\ Becomes(open(World, url, options.classNames, options.config))
    /\ UNCHANGED <<created, rendered, tasks, encoded, calc, outside>>

StoreClose ==
    /\ Becomes(close(World))
    /\ UNCHANGED <<created, rendered, tasks, encoded, calc, outside>>

StoreSave(h) ==
    /\ Becomes(save(World, h))
    /\ UNCHANGED <<created, rendered, tasks, encoded, calc, outside>>

StoreCancel(error) ==
    /\ Becomes(cancel(World, error))
    /\ UNCHANGED <<created, rendered, tasks, encoded, calc, outside>>

StoreAddBlobUrl(h) ==
    /\ Becomes(addBlobUrl(World, h))
    /\ UNCHANGED <<created, rendered, tasks, encoded, calc, outside>>

StoreRevokeBlobUrls ==
    /\ Becomes(revokeBlobUrls(World))
    /\ UNCHANGED <<created, rendered, tasks, encoded, calc, outside>>

(***************************************************************************)
(* The dialog component.  React commits a render after the store fields    *)
(* the component selects have changed; the effect that depends on isOpen   *)
(* then runs the cleanup of the previous render, which captured that       *)
(* render's isOpen.  Only isOpen is kept of a render: a commit after a     *)
(* change of the other selected fields runs no effect.                     *)
(***************************************************************************)
EffectCleanup(w, capturedIsOpen) ==
    IF ~capturedIsOpen THEN revokeBlobUrls(w) ELSE w

Render ==
    /\ rendered # Snapshot(World)
    /\ Becomes(IF rendered.isOpen # isOpen
               THEN EffectCleanup(World, rendered.isOpen)
               ELSE World)
    /\ rendered' = Snapshot(World)
    /\ UNCHANGED <<created, tasks, encoded, calc, outside>>

\* A user event reaches the dialog as rendered from the current store state
\* (so the imageUrl its handlers captured is the store's), and its buttons
\* exist only while the dialog is shown.
DialogShown == rendered = Snapshot(World) /\ rendered.isOpen

\* handleSave up to its first await (lines 64-76): api.getCroppedImage() is
\* called here, and the image it makes is that of the engine's state now.
handleSave ==
    /\ DialogShown
    /\ IF imageUrl = ""
       THEN /\ Becomes(cancel(World, ErrNoImageUrl))
            /\ UNCHANGED tasks
       ELSE /\ BagCardinality(tasks) < MaxTasks
            /\ tasks' = tasks (+) SetToBag({[pc |-> "crop", origin |-> pendingResolve,
                                              image |-> engine]})
            /\ Becomes(World)
    /\ UNCHANGED <<created, rendered, encoded, calc, outside>>

\* The blob handleSave gets from api.getCroppedImage(), which it calls with
\* no options (line 76): the engine encodes with its own defaults, taken here
\* to be the ones the library documents, whatever the session's config says.
ZagEncoding == [imageFormat |-> "image/png", imageQuality |-> "0.92"]

\* The tail of handleSave after its last await (lines 100-117): cropData is
\* the result of api.getCropData(), createOk tells whether
\* URL.createObjectURL returned.
Confirm(cropData, createOk) ==
    IF cropData = Null
    THEN /\ Becomes(cancel(World, ErrNoCropData))
         /\ UNCHANGED <<created, encoded>>
    ELSE IF ~createOk
    THEN /\ Becomes(cancel(World, ErrThrown))
         /\ UNCHANGED <<created, encoded>>
    ELSE /\ created < MaxHandles
         /\ created' = created + 1
         /\ encoded' = Append(encoded, ZagEncoding)
         /\ Becomes(save(addBlobUrl(World, created + 1), created + 1))

Done(t) == tasks' = tasks (-) SetToBag({t})

Moves(t, pc) == tasks' = (tasks (-) SetToBag({t})) (+) SetToBag({[t EXCEPT !.pc = pc]})

\* api.getCroppedImage() rejected (lines 77-82).
CropThrows(t) ==
    /\ t.pc = "crop"
    /\ Becomes(cancel(World, ErrGetCropped))
    /\ Done(t)
    /\ UNCHANGED <<created, rendered, encoded, calc, outside>>

\* The null result not tested: handleSave goes on to make and save a URL.
CropNullUnchecked(t) ==
    /\ t.pc = "crop"
    /\ Confirm("cd1", TRUE)
    /\ Done(t)
    /\ UNCHANGED <<rendered, calc, outside>>

\* api.getCroppedImage() resolved with null (lines 84-89).
CropNull(t) ==
    /\ t.pc = "crop"
    /\ Becomes(cancel(World, ErrNoBlob))
    /\ Done(t)
    /\ UNCHANGED <<created, rendered, encoded, calc, outside>>

\* api.getCroppedImage() resolved with a data URL (lines 93-95).  The two
\* awaits that follow, fetch(dataUrl) and response.blob(), touch nothing of
\* the store between them and are one suspension, "fetch".
CropString(t) ==
    /\ t.pc = "crop"
    /\ Moves(t, "fetch")
    /\ Becomes(World)
    /\ UNCHANGED <<created, rendered, encoded, calc, outside>>

\* api.getCroppedImage() resolved with a Blob (lines 96-117).
CropBlob(t, cropData, createOk) ==
    /\ t.pc = "crop"
    /\ Confirm(cropData, createOk)
    /\ Done(t)
    /\ UNCHANGED <<rendered, calc, outside>>

\* fetch(dataUrl) or response.blob() rejected: the outer catch (lines
\* 118-122).
FetchThrows(t) ==
    /\ t.pc = "fetch"
    /\ Becomes(cancel(World, ErrThrown))
    /\ Done(t)
    /\ UNCHANGED <<created, rendered, encoded, calc, outside>>

\* fetch(dataUrl) and response.blob() resolved (lines 94-95, 100-117).
BlobOk(t, cropData, createOk) ==
    /\ t.pc = "fetch"
    /\ Confirm(cropData, createOk)
    /\ Done(t)
    /\ UNCHANGED <<rendered, calc, outside>>

\* The Cancel button or a dismiss gesture: onOpenChange(false).
handleOpenChange(o) ==
    /\ DialogShown
    /\ IF ~o THEN Becomes(cancel(World, ErrUserCancelled)) ELSE Becomes(World)
    /\ UNCHANGED <<created, rendered, tasks, encoded, calc, outside>>

Next ==
    \/ \E url \in Urls, options \in OptionsArgs : resizeImage(url, options)
    \/ StoreClose
    \/ \E h \in 1..created : StoreSave(h)
    \/ StoreCancel(ErrApp)
    \/ \E h \in AppHandles \ revoked : StoreAddBlobUrl(h)
    \/ StoreRevokeBlobUrls
    \/ Render
    \/ handleSave
    \/ handleOpenChange(FALSE)
    \/ \E t \in BagToSet(tasks) : CropThrows(t)
    \/ \E t \in BagToSet(tasks) : CropNull(t)
    \/ \E t \in BagToSet(tasks) : CropString(t)
    \/ \E t \in BagToSet(tasks), cd \in CropDatas \cup {Null}, ok \in BOOLEAN : CropBlob(t, cd, ok)
    \/ \E t \in BagToSet(tasks) : FetchThrows(t)
    \/ \E t \in BagToSet(tasks), cd \in CropDatas \cup {Null}, ok \in BOOLEAN : BlobOk(t, cd, ok)

Spec == Init /\ [][Next]_vars

\* The dialog with the interaction engine followed: the cropper and the
\* zoom, rotate and flip buttons stay live while handleSave is suspended
\* (lines 143-214), and api.getCropData() returns the engine's state at the
\* time it is called (line 101).  Spec does not follow the engine: there,
\* api.getCropData() may return any crop data.
interact(cropData) ==
    /\ DialogShown
    /\ cropData # engine
    /\ engine' = cropData
    /\ Becomes(World)
    /\ UNCHANGED <<created, rendered, tasks, encoded, calc, throwing>>

NextEngine ==
    \/ \E url \in Urls, options \in OptionsArgs : resizeImage(url, options)
    \/ Render
    \/ \E cropData \in CropDatas : interact(cropData)
    \/ handleSave
    \/ handleOpenChange(FALSE)
    \/ \E t \in BagToSet(tasks) : CropThrows(t)
    \/ \E t \in BagToSet(tasks) : CropNull(t)
    \/ \E t \in BagToSet(tasks) : CropString(t)
    \/ \E t \in BagToSet(tasks), ok \in BOOLEAN : CropBlob(t, engine, ok)
    \/ \E t \in BagToSet(tasks) : FetchThrows(t)
    \/ \E t \in BagToSet(tasks), ok \in BOOLEAN : BlobOk(t, engine, ok)

SpecEngine == Init /\ [][NextEngine]_vars

\* The same program where URL.revokeObjectURL throws for the object URLs the
\* application made itself, and revokes the ones the dialog made.
InitThrowing == Started /\ throwing = AppHandles

SpecThrowing == InitThrowing /\ [][Next]_vars

(***************************************************************************)
(* The crop-rect computation of the canvas-based save handler              *)
(* (src/components/resize-image-dialog/index.tsx, lines 324-338; the same  *)
(* code is in the earlier dialogs).  A JavaScript number is kept as n/d    *)
(* with d >= 0: d > 0 is the finite n/d, 1/0 is Infinity, -1/0 is          *)
(* -Infinity and 0/0 is NaN.  Finite arithmetic is exact: the rounding of  *)
(* doubles is not followed.                                                *)
(***************************************************************************)
Num(n, d) == [n |-> n, d |-> d]
Int2Num(i) == Num(i, 1)
Infinity == Num(1, 0)
NegInfinity == Num(-1, 0)
NaN == Num(0, 0)

IsNaN(a) == a.n = 0 /\ a.d = 0
IsFinite(a) == a.d > 0
Sign(i) == IF i > 0 THEN 1 ELSE IF i < 0 THEN -1 ELSE 0
Abs(i) == IF i < 0 THEN -i ELSE i

\* a < b of two numbers, false when either is NaN.
Less(a, b) ==
    /\ ~IsNaN(a)
    /\ ~IsNaN(b)
    /\ IF IsFinite(a) /\ IsFinite(b) THEN a.n * b.d < b.n * a.d
       ELSE IF IsFinite(a) THEN b.n > 0
       ELSE IF IsFinite(b) THEN a.n < 0
       ELSE a.n < b.n

\* a === b of two numbers, false when either is NaN.
Same(a, b) == ~IsNaN(a) /\ ~IsNaN(b) /\ ~Less(a, b) /\ ~Less(b, a)

Sub(a, b) ==
    IF IsNaN(a) \/ IsNaN(b) THEN NaN
    ELSE IF IsFinite(a) /\ IsFinite(b) THEN Num(a.n * b.d - b.n * a.d, a.d * b.d)
    ELSE IF IsFinite(a) THEN Num(-b.n, 0)
    ELSE IF IsFinite(b) THEN a
    ELSE IF a.n = b.n THEN NaN ELSE a

Mul(a, b) ==
    IF IsNaN(a) \/ IsNaN(b) THEN NaN
    ELSE IF IsFinite(a) /\ IsFinite(b) THEN Num(a.n * b.n, a.d * b.d)
    ELSE Num(Sign(a.n) * Sign(b.n), 0)

Div(a, b) ==
    IF IsNaN(a) \/ IsNaN(b) THEN NaN
    ELSE IF IsFinite(a) /\ IsFinite(b)
         THEN IF b.n = 0 THEN Num(Sign(a.n), 0)
              ELSE Num(a.n * b.d * Sign(b.n), a.d * Abs(b.n))
    ELSE IF IsFinite(b) THEN Num(a.n * (IF b.n < 0 THEN -1 ELSE 1), 0)
    ELSE IF IsFinite(a) THEN Int2Num(0)
    ELSE NaN

MathMax(a, b) == IF IsNaN(a) \/ IsNaN(b) THEN NaN ELSE IF Less(a, b) THEN b ELSE a
MathMin(a, b) == IF IsNaN(a) \/ IsNaN(b) THEN NaN ELSE IF Less(b, a) THEN b ELSE a

\* The rects getBoundingClientRect() returns for the selection and the image
\* elements, and the image's natural size.
SelectionRects ==
    [left : {-5, 0, 100, 995, 1000}, top : {0, 50}, width : {1, 20, 100}, height : {10, 60}]
ImageRects == [left : {0, 5}, top : {0}, width : {0, 500, 1000}, height : {0, 300, 600}]
NaturalWidths == {250, 1000}
NaturalHeights == {600}

\* The same computation with the horizontal scale used on both axes.
cropRectUniformScale(selectionRect, imageRect, naturalWidth, naturalHeight) ==
    LET relX == Sub(Int2Num(selectionRect.left), Int2Num(imageRect.left))
        relY == Sub(Int2Num(selectionRect.top), Int2Num(imageRect.top))
        relWidth == Int2Num(selectionRect.width)
        relHeight == Int2Num(selectionRect.height)
        scaleX == Div(Int2Num(naturalWidth), Int2Num(imageRect.width))
        scaleY == scaleX
        cropX == MathMax(Int2Num(0), Mul(relX, scaleX))
        cropY == MathMax(Int2Num(0), Mul(relY, scaleY))
        cropWidth == MathMin(Mul(relWidth, scaleX), Sub(Int2Num(naturalWidth), cropX))
        cropHeight == MathMin(Mul(relHeight, scaleY), Sub(Int2Num(naturalHeight), cropY))
    IN [x |-> cropX, y |-> cropY, width |-> cropWidth, height |-> cropHeight]

\* Lines 324-338: cropX, cropY, cropWidth and cropHeight.
cropRect(selectionRect, imageRect, naturalWidth, naturalHeight) ==
    LET relX == Sub(Int2Num(selectionRect.left), Int2Num(imageRect.left))
        relY == Sub(Int2Num(selectionRect.top), Int2Num(imageRect.top))
        relWidth == Int2Num(selectionRect.width)
        relHeight == Int2Num(selectionRect.height)
        scaleX == Div(Int2Num(naturalWidth), Int2Num(imageRect.width))
        scaleY == Div(Int2Num(naturalHeight), Int2Num(imageRect.height))
        cropX == MathMax(Int2Num(0), Mul(relX, scaleX))
        cropY == MathMax(Int2Num(0), Mul(relY, scaleY))
        cropWidth == MathMin(Mul(relWidth, scaleX), Sub(Int2Num(naturalWidth), cropX))
        cropHeight == MathMin(Mul(relHeight, scaleY), Sub(Int2Num(naturalHeight), cropY))
    IN [x |-> cropX, y |-> cropY, width |-> cropWidth, height |-> cropHeight]

\* handleSave from the reading of the two rects to the sizing of the canvas
\* (lines 324-342): nothing on the way checks the rects or the result, and
\* the handler goes on to size the canvas from whatever was computed.
handleSaveGeometry(selectionRect, imageRect, naturalWidth, naturalHeight) ==
    /\ geometry = NoGeometry
    /\ geometry' = [selectionRect |-> selectionRect,
                    imageRect |-> imageRect,
                    naturalWidth |-> naturalWidth,
                    naturalHeight |-> naturalHeight,
                    crop |-> cropRect(selectionRect, imageRect, naturalWidth, naturalHeight),
                    outcome |-> "canvas sized"]
    /\ UNCHANGED <<isOpen, imageUrl, classNames, config, pendingResolve, pendingReject,
                   blobUrls, promise, revoked, created, rendered, tasks, encoded, raster,
                   outside>>

NextGeometry ==
    \E selectionRect \in SelectionRects, imageRect \in ImageRects,
       naturalWidth \in NaturalWidths, naturalHeight \in NaturalHeights :
        handleSaveGeometry(selectionRect, imageRect, naturalWidth, naturalHeight)

SpecGeometry == Init /\ [][NextGeometry]_vars

(***************************************************************************)
(* The canvas compositing of the save handlers: the general path with an   *)
(* intermediate canvas (part_005, lines 666-742) and the direct crop       *)
(* (src/components/resize-image-dialog/index.tsx, lines 340-380).          *)
(*                                                                         *)
(* A canvas is its pixel grid.  Coordinates are kept doubled, so that the  *)
(* halves the code produces (boundingWidth / 2, -cropWidth / 2) stay       *)
(* integers; a pixel drawn from a position that falls between source       *)
(* pixels is resampled, and is kept as the value Blend.                    *)
(***************************************************************************)
ImageSize == 3

Transparent == 0
Blend == -1

\* The loaded source image: ImageSize x ImageSize pixels, all different.
img ==
    [width |-> ImageSize, height |-> ImageSize,
     px |-> [p \in (0..ImageSize - 1) \X (0..ImageSize - 1) |-> 1 + p[2] * ImageSize + p[1]]]

\* api.getCropData(): a rect in natural pixels, which may overhang the image.
CropRects ==
    [x : 0..ImageSize - 1, y : 0..ImageSize - 1, width : 1..ImageSize, height : 1..ImageSize]
Flips == [horizontal : BOOLEAN, vertical : BOOLEAN]
\* api.rotation: the rotate button turns by 90 degrees.
Rotations == {0, 90, 180, 270}

\* Math.abs(Math.cos(rotationRad)) and Math.abs(Math.sin(rotationRad)) as
\* doubles: 0 or 1 (unit) plus what the double holds beyond it (tiny, in
\* 1/10000 of 2^-53).  Math.cos(Math.PI / 2) is 6.123e-17, Math.sin(Math.PI)
\* is 1.2246e-16 and Math.cos(3 * Math.PI / 2) is -1.8370e-16, not 0.
AbsCos(rotation) ==
    CASE rotation = 0 -> [unit |-> 1, tiny |-> 0]
      [] rotation = 90 -> [unit |-> 0, tiny |-> 5515]
      [] rotation = 180 -> [unit |-> 1, tiny |-> 0]
      [] rotation = 270 -> [unit |-> 0, tiny |-> 16546]
AbsSin(rotation) ==
    CASE rotation = 0 -> [unit |-> 0, tiny |-> 0]
      [] rotation = 90 -> [unit |-> 1, tiny |-> 0]
      [] rotation = 180 -> [unit |-> 0, tiny |-> 11031]
      [] rotation = 270 -> [unit |-> 1, tiny |-> 0]

\* The largest power of two that is at most n: half the spacing of the
\* doubles at n is 2^-53 times it.
Pow2Floor(n) == CHOOSE p \in {2^k : k \in 0..10} : p <= n /\ n < 2 * p

\* Math.ceil(a * c + b * s) in double arithmetic, for integers a, b >= 1: the
\* sum is the whole part, or the next double above it when the tiny part is
\* more than half the spacing of the doubles there, and Math.ceil then gives
\* the next integer.
MathCeilSum(a, c, b, s) ==
    LET whole == a * c.unit + b * s.unit
        tiny == a * c.tiny + b * s.tiny
    IN IF tiny = 0 THEN whole
       ELSE IF whole = 0 THEN 1
       ELSE IF tiny > 10000 * Pow2Floor(whole) THEN whole + 1
       ELSE whole

\* Lines 671-674: boundingWidth and boundingHeight.
boundingBox(cropData, rotation) ==
    [width |-> MathCeilSum(cropData.width, AbsCos(rotation), cropData.height, AbsSin(rotation)),
     height |-> MathCeilSum(cropData.width, AbsSin(rotation), cropData.height, AbsCos(rotation))]

\* document.createElement("canvas") with its width and height set.
createCanvas(width, height) ==
    [width |-> width, height |-> height,
     px |-> [p \in (0..width - 1) \X (0..height - 1) |-> Transparent]]

\* The current transform of a context, user space to canvas space:
\* (x, y) goes to (a x + c y + e, b x + d y + f), with e and f doubled.  The
\* transforms made here are quarter turns and mirrorings, so a, b, c, d are
\* -1, 0 or 1.
Identity == [a |-> 1, b |-> 0, c |-> 0, d |-> 1, e2 |-> 0, f2 |-> 0]
translate(t, x2, y2) ==
    [t EXCEPT !.e2 = @ + t.a * x2 + t.c * y2, !.f2 = @ + t.b * x2 + t.d * y2]
scale(t, fx, fy) ==
    [t EXCEPT !.a = @ * fx, !.b = @ * fx, !.c = @ * fy, !.d = @ * fy]

\* Math.cos and Math.sin of a quarter turn as the rasterizer sees them: the
\* 1e-16 they are off by moves nothing by a pixel.
Cos(rotation) == CASE rotation = 0 -> 1 [] rotation = 90 -> 0
                   [] rotation = 180 -> -1 [] rotation = 270 -> 0
Sin(rotation) == CASE rotation = 0 -> 0 [] rotation = 90 -> 1
                   [] rotation = 180 -> 0 [] rotation = 270 -> -1
rotate(t, rotation) ==
    [t EXCEPT !.a = t.a * Cos(rotation) + t.c * Sin(rotation),
              !.b = t.b * Cos(rotation) + t.d * Sin(rotation),
              !.c = t.c * Cos(rotation) - t.a * Sin(rotation),
              !.d = t.d * Cos(rotation) - t.b * Sin(rotation)]

\* The doubled user-space position of the centre of canvas pixel p under t
\* (the inverse of a quarter turn or mirroring is its transpose).
UserPos2(t, p) ==
    LET X2 == 2 * p[1] + 1 - t.e2
        Y2 == 2 * p[2] + 1 - t.f2
    IN <<t.a * X2 + t.b * Y2, t.c * X2 + t.d * Y2>>

\* Along one axis: the doubled position of the source pixel that lands on a
\* canvas pixel whose centre is at c2 in user space, for a destination rect
\* starting at d2 and a source rect starting at s2.
SourcePos2(c2, d2, s2) == s2 + c2 - d2 - 1

\* ctx.drawImage(source, sx, sy, sw, sh, dx, dy, sw, sh) under transform t:
\* the pixels the source rect lands on take the source's pixels; those the
\* source rect covers outside the source stay as they were.
drawImage(canvas, t, source, sx2, sy2, sw, sh, dx2, dy2) ==
    [canvas EXCEPT !.px =
        [p \in DOMAIN canvas.px |->
            LET x2 == SourcePos2(UserPos2(t, p)[1], dx2, sx2)
                y2 == SourcePos2(UserPos2(t, p)[2], dy2, sy2)
                covered == /\ x2 > sx2 - 2 /\ x2 < sx2 + 2 * sw
                           /\ y2 > sy2 - 2 /\ y2 < sy2 + 2 * sh
                aligned == x2 % 2 = 0 /\ y2 % 2 = 0
                q == <<x2 \div 2, y2 \div 2>>
            IN IF ~covered THEN canvas.px[p]
               ELSE IF ~aligned THEN Blend
               ELSE IF q \in DOMAIN source.px THEN source.px[q]
               ELSE canvas.px[p]]]

Call(op, x, y) == [op |-> op, x |-> x, y |-> y]

\* The calls with both mirrorings made before the rotation.
tempCtxCallsFlipFirst(cropData, rotation, flip) ==
    <<Call("save", 0, 0),
      Call("translate", boundingBox(cropData, rotation).width,
                        boundingBox(cropData, rotation).height)>>
    \o (IF flip.horizontal THEN <<Call("scale", -1, 1)>> ELSE <<>>)
    \o (IF flip.vertical THEN <<Call("scale", 1, -1)>> ELSE <<>>)
    \o (IF rotation # 0 THEN <<Call("rotate", rotation, 0)>> ELSE <<>>)
    \o <<Call("drawImage", -cropData.width, -cropData.height),
         Call("restore", 0, 0)>>

\* Lines 688-715: the calls made on tempCtx, in the order they are made
\* (lengths doubled: boundingWidth / 2 is kept as boundingWidth).
tempCtxCalls(cropData, rotation, flip) ==
    <<Call("save", 0, 0),
      Call("translate", boundingBox(cropData, rotation).width,
                        boundingBox(cropData, rotation).height)>>
    \o (IF rotation # 0 THEN <<Call("rotate", rotation, 0)>> ELSE <<>>)
    \o (IF flip.horizontal THEN <<Call("scale", -1, 1)>> ELSE <<>>)
    \o (IF flip.vertical THEN <<Call("scale", 1, -1)>> ELSE <<>>)
    \o <<Call("drawImage", -cropData.width, -cropData.height),
         Call("restore", 0, 0)>>

\* One call on a context: its canvas, current transform and saved transform.
perform(ctx, call, cropData) ==
    CASE call.op = "save" -> [ctx EXCEPT !.saved = ctx.t]
      [] call.op = "restore" -> [ctx EXCEPT !.t = ctx.saved]
      [] call.op = "translate" -> [ctx EXCEPT !.t = translate(@, call.x, call.y)]
      [] call.op = "rotate" -> [ctx EXCEPT !.t = rotate(@, call.x)]
      [] call.op = "scale" -> [ctx EXCEPT !.t = scale(@, call.x, call.y)]
      [] call.op = "drawImage" ->
            [ctx EXCEPT !.canvas = drawImage(@, ctx.t, img, 2 * cropData.x, 2 * cropData.y,
                                             cropData.width, cropData.height,
                                             call.x, call.y)]

RECURSIVE performAll(_, _, _)
performAll(ctx, calls, cropData) ==
    IF calls = <<>> THEN ctx
    ELSE performAll(perform(ctx, Head(calls), cropData), Tail(calls), cropData)

getContext(canvas) == [canvas |-> canvas, t |-> Identity, saved |-> Identity]

\* Lines 729-730: offsetX and offsetY, doubled.
finalOffset2(cropData, rotation) ==
    [x |-> boundingBox(cropData, rotation).width - cropData.width,
     y |-> boundingBox(cropData, rotation).height - cropData.height]

\* Lines 717-742: the centred window of tempCanvas copied into finalCanvas.
finalCopy(tempCanvas, cropData, rotation) ==
    drawImage(createCanvas(cropData.width, cropData.height), Identity, tempCanvas,
              finalOffset2(cropData, rotation).x, finalOffset2(cropData, rotation).y,
              cropData.width, cropData.height, 0, 0)

\* The general path drawing the source at the origin of the transformed
\* context instead of centred on it.
compositeDrawnAtOrigin(cropData, rotation, flip) ==
    LET calls == tempCtxCalls(cropData, rotation, flip)
        atOrigin == [i \in DOMAIN calls |->
                        IF calls[i].op = "drawImage" THEN Call("drawImage", 0, 0)
                        ELSE calls[i]]
        tempCanvas == createCanvas(boundingBox(cropData, rotation).width,
                                   boundingBox(cropData, rotation).height)
    IN finalCopy(performAll(getContext(tempCanvas), atOrigin, cropData).canvas,
                 cropData, rotation)

\* part_005, lines 666-742: tempCanvas of the bounding size, the calls on its
\* context, and the copy of its centred window into finalCanvas.
composite(cropData, rotation, flip) ==
    LET tempCanvas == createCanvas(boundingBox(cropData, rotation).width,
                                   boundingBox(cropData, rotation).height)
    IN finalCopy(performAll(getContext(tempCanvas),
                            tempCtxCalls(cropData, rotation, flip), cropData).canvas,
                 cropData, rotation)

\* index.tsx, lines 340-380: one canvas of the crop size, the crop rect drawn
\* at its origin.
directCrop(cropData) ==
    drawImage(createCanvas(cropData.width, cropData.height), Identity, img,
              2 * cropData.x, 2 * cropData.y, cropData.width, cropData.height, 0, 0)

\* handleSave of the general path from the loaded image to finalCanvas.
handleSaveComposite(cropData, rotation, flip) ==
    /\ raster = NoRaster
    /\ raster' = [cropData |-> cropData, rotation |-> rotation, flip |-> flip,
                  calls |-> tempCtxCalls(cropData, rotation, flip),
                  bounding |-> boundingBox(cropData, rotation),
                  offset2 |-> finalOffset2(cropData, rotation),
                  output |-> composite(cropData, rotation, flip)]
    /\ UNCHANGED <<isOpen, imageUrl, classNames, config, pendingResolve, pendingReject,
                   blobUrls, promise, revoked, created, rendered, tasks, encoded, geometry,
                   outside>>

NextCompositor ==
    \E cropData \in CropRects, rotation \in Rotations, flip \in Flips :
        handleSaveComposite(cropData, rotation, flip)

SpecCompositor == Init /\ [][NextCompositor]_vars

(***************************************************************************)
(* The earlier provider, which makes the object URL itself (part_009),     *)
(* with the store it was written for (store.ts, lines 207-277: no          *)
(* blobUrls, the styles argument where classNames is now) and the dialog   *)
(* it renders, which hands it the encoded blob (part_005, lines 60-156).   *)
(* The same variables are used; blobUrls is never written.                 *)
(***************************************************************************)
legacyOpen(w, url, styles, cfg) ==
    LET p == NextPromise(w)
    IN [w EXCEPT !.isOpen = TRUE,
                 !.imageUrl = url,
                 !.classNames = OrEmpty(styles),
                 !.config = OrEmpty(cfg),
                 !.pendingResolve = p,
                 !.pendingReject = p,
                 !.promise[p] = Pending]

legacyClose(w) ==
    [w EXCEPT !.isOpen = FALSE,
              !.imageUrl = Null,
              !.pendingResolve = NoPromise,
              !.pendingReject = NoPromise]

legacySave(w, blobUrl) ==
    LET w1 == IF w.pendingResolve # NoPromise
              THEN [w EXCEPT !.promise[w.pendingResolve] =
                                 Settle(@, "fulfilled", StringValue(blobUrl))]
              ELSE w
    IN [w1 EXCEPT !.isOpen = FALSE,
                  !.imageUrl = Null,
                  !.pendingResolve = NoPromise,
                  !.pendingReject = NoPromise]

legacyCancel(w, error) ==
    LET w1 == IF w.pendingReject # NoPromise
              THEN [w EXCEPT !.promise[w.pendingReject] =
                                 Settle(@, "rejected", ErrorValue(error))]
              ELSE w
    IN [w1 EXCEPT !.isOpen = FALSE,
                  !.imageUrl = Null,
                  !.pendingResolve = NoPromise,
                  !.pendingReject = NoPromise]

\* The hook's resizeImage(imageUrl, styles, config) (part_007).
useImageResizer(url, options) ==
    /\ NextPromise(World) <= MaxSessions
    /\ Becomes(legacyOpen(World, url, options.classNames, options.config))
    /\ UNCHANGED <<created, rendered, tasks, encoded, calc, outside>>

LegacyStoreClose ==
    /\ Becomes(legacyClose(World))
    /\ UNCHANGED <<created, rendered, tasks, encoded, calc, outside>>

\* The provider re-renders the dialog with the store's isOpen; no effect of
\* this dialog touches the store.
ProviderRender ==
    /\ rendered # Snapshot(World)
    /\ rendered' = Snapshot(World)
    /\ Becomes(World)
    /\ UNCHANGED <<created, tasks, encoded, calc, outside>>

\* The dialog's handleSave up to its await of the image load (part_005,
\* lines 86-134): without an image URL it only logs.
dialogHandleSave ==
    /\ DialogShown
    /\ IF imageUrl = ""
       THEN UNCHANGED tasks
       ELSE /\ BagCardinality(tasks) < MaxTasks
            /\ tasks' = tasks (+) SetToBag({[pc |-> "load", origin |-> pendingResolve]})
    /\ Becomes(World)
    /\ UNCHANGED <<created, rendered, encoded, calc, outside>>

\* img.onload: the image is drawn and canvas.toBlob is called (lines 136-146).
dialogImageLoaded(t) ==
    /\ t.pc = "load"
    /\ Moves(t, "encode")
    /\ Becomes(World)
    /\ UNCHANGED <<created, rendered, encoded, calc, outside>>

\* img.onerror: the catch logs the error (lines 147-149).
dialogImageFailed(t) ==
    /\ t.pc = "load"
    /\ Done(t)
    /\ Becomes(World)
    /\ UNCHANGED <<created, rendered, encoded, calc, outside>>

\* The provider's handleSave(blob) (part_009, lines 57-60).
providerHandleSave ==
    /\ created < MaxHandles
    /\ created' = created + 1
    /\ encoded' = Append(encoded, [imageFormat |-> "image/png", imageQuality |-> "0.92"])
    /\ Becomes(legacySave(World, created + 1))

\* The toBlob callback (part_005, lines 139-143): onSave(blob) if there is a
\* blob, nothing otherwise.
dialogToBlob(t, blobOk) ==
    /\ t.pc = "encode"
    /\ Done(t)
    /\ IF blobOk
       THEN providerHandleSave
       ELSE Becomes(World) /\ UNCHANGED <<created, encoded>>
    /\ UNCHANGED <<rendered, calc, outside>>

\* The provider's handleCancel (part_009, lines 68-71), which the dialog's
\* handleOpenChange(false) calls as onCancel (part_005, lines 152-156).
providerHandleCancel ==
    /\ DialogShown
    /\ Becomes(legacyCancel(World, ErrApp))
    /\ UNCHANGED <<created, rendered, tasks, encoded, calc, outside>>

NextProvider ==
    \/ \E url \in Urls, options \in OptionsArgs : useImageResizer(url, options)
    \/ LegacyStoreClose
    \/ ProviderRender
    \/ dialogHandleSave
    \/ \E t \in BagToSet(tasks) : dialogImageLoaded(t)
    \/ \E t \in BagToSet(tasks) : dialogImageFailed(t)
    \/ \E t \in BagToSet(tasks), blobOk \in BOOLEAN : dialogToBlob(t, blobOk)
    \/ providerHandleCancel

SpecProvider == Init /\ [][NextProvider]_vars

(***************************************************************************)
(* Properties.                                                             *)
(***************************************************************************)
Errors == {ErrNoImageUrl, ErrGetCropped, ErrNoBlob, ErrNoCropData,
           ErrUserCancelled, ErrThrown, ErrApp}

StoreFields == <<isOpen, imageUrl, classNames, config, pendingResolve,
                 pendingReject, blobUrls>>

Settled(p) == promise[p].state \in {"fulfilled", "rejected"}

\* The steps in which cancel(error) is called.
CancelCall(error) ==
    \/ error = ErrApp /\ StoreCancel(error)
    \/ error = ErrUserCancelled /\ handleOpenChange(FALSE)
    \/ error = ErrNoImageUrl /\ imageUrl = "" /\ handleSave
    \/ error = ErrGetCropped /\ \E t \in BagToSet(tasks) : CropThrows(t)
    \/ error = ErrNoBlob /\ \E t \in BagToSet(tasks) : CropNull(t)
    \/ error = ErrNoCropData /\ \E t \in BagToSet(tasks), ok \in BOOLEAN :
           CropBlob(t, Null, ok) \/ BlobOk(t, Null, ok)
    \/ error = ErrThrown /\ \E t \in BagToSet(tasks) :
           \/ FetchThrows(t)
           \/ \E cd \in CropDatas : CropBlob(t, cd, FALSE) \/ BlobOk(t, cd, FALSE)

\* The steps in which the dialog's save handler calls save(blobUrl, cropData).
DialogSaves(t, cropData) == CropBlob(t, cropData, TRUE) \/ BlobOk(t, cropData, TRUE)

\* The steps in which the suspended handleSave invocation t runs to its end.
Completes(t) == tasks' = tasks (-) SetToBag({t})

\* C1: when a pending session is replaced by a new one, the replaced
\* session's promise has been rejected with 'Superseded' by the time the new
\* session's promise exists (so before the new one can settle).
C1_SupersededBeforeNew ==
    [][(pendingReject # NoPromise /\ pendingReject' # NoPromise
            /\ pendingReject' # pendingReject)
        => (/\ promise'[pendingReject].state = "rejected"
            /\ promise'[pendingReject].value = ErrorValue("Superseded"))]_vars

\* C2: no promise returned by open() is still pending once its session is no
\* longer the store's current one.
C2_NoOrphanedPromise ==
    \A p \in PromiseIds :
        promise[p].state = "pending" => (pendingResolve = p /\ pendingReject = p)

\* C3: when the dialog's save handler calls save(handle, metadata) in an Open
\* session, the session's promise is fulfilled with a value carrying both the
\* handle (blobUrl) and the metadata (cropData).
C3_SaveDeliversHandleAndMetadata ==
    [][\A t \in BagToSet(tasks), cd \in CropDatas :
          (isOpen /\ pendingResolve # NoPromise /\ DialogSaves(t, cd))
          => (/\ promise'[pendingResolve].state = "fulfilled"
              /\ promise'[pendingResolve].value = ResultValue(created', cd))]_vars

\* C4: a handle delivered to the caller by a successful save is not revoked by
\* any later step of the store or the dialog.
Delivered(h) ==
    \E p \in PromiseIds :
        /\ promise[p].state = "fulfilled"
        /\ promise[p].value \in {StringValue(h)} \cup {ResultValue(h, cd) : cd \in CropDatas}

C4_DeliveredNeverRevoked ==
    [][\A h \in Handles : (Delivered(h) /\ h \notin revoked) => h \notin revoked']_vars

\* C5: whenever the store is Closed, the tracked handle set is empty.
C5_ClosedHasNoTrackedHandles == ~isOpen => blobUrls = {}

\* C6: cancel(reason) called in an Open session rejects the pending promise
\* with exactly that reason, revokes every tracked handle, empties the tracked
\* set and leaves the store Closed with no image URL and no pending callbacks.
C6_CancelRejectsAndReleases ==
    [][\A e \in Errors :
          (isOpen /\ pendingReject # NoPromise /\ CancelCall(e))
          => (/\ promise'[pendingReject].state = "rejected"
              /\ promise'[pendingReject].value = ErrorValue(e)
              /\ promise'[pendingReject].calls = 1
              /\ blobUrls \subseteq revoked'
              /\ blobUrls' = {}
              /\ ~isOpen'
              /\ imageUrl' = Null
              /\ pendingResolve' = NoPromise
              /\ pendingReject' = NoPromise)]_vars

\* The first session has been dismissed by the user, and the handle the
\* application had tracked is revoked and no longer tracked.
C6_Witness ==
    /\ ~isOpen
    /\ promise[1].state = "rejected"
    /\ promise[1].value = ErrorValue(ErrUserCancelled)
    /\ promise[2].state = "uncreated"
    /\ blobUrls = {}
    /\ AppHandles \subseteq revoked

\* C7: save or cancel called while the store is Closed changes no store field,
\* settles no promise and revokes no handle.
C7_ClosedSaveCancelIsNoOp ==
    [][(~isOpen /\ ((\E h \in Handles : StoreSave(h)) \/ (\E e \in Errors : CancelCall(e))))
        => UNCHANGED <<StoreFields, promise, revoked>>]_vars

\* C8: each promise returned by open() is settled exactly once: the resolve
\* and reject callbacks of a settled promise have been invoked once in total,
\* those of an unsettled one never.
C8_SettledExactlyOnce ==
    \A p \in PromiseIds : promise[p].calls = (IF Settled(p) THEN 1 ELSE 0)

\* The only session was cancelled, and the save handler's save(blobUrl) ran
\* after that without an intervening open.
C8_Witness ==
    /\ promise[1].state = "rejected"
    /\ promise[2].state = "uncreated"
    /\ created = 1

\* C9: a save continuation started in one session never fulfils the promise
\* of another session.
C9_LateSaveNeverSettlesOtherSession ==
    [][\A t \in BagToSet(tasks), p \in PromiseIds :
          (Completes(t) /\ promise[p].state = "pending" /\ promise'[p].state = "fulfilled")
          => p = t.origin]_vars

\* C10: when a session was cancelled while its save was in flight and no new
\* session has been opened, the completion of that save adds no handle to the
\* tracked set, settles no promise and leaves the store Closed.
C10_LateCompletionChangesNothing ==
    [][\A t \in BagToSet(tasks) :
          (/\ ~isOpen
           /\ t.origin # NoPromise
           /\ promise[t.origin].state = "rejected"
           /\ NextPromise(World) = t.origin + 1
           /\ Completes(t))
          => (blobUrls' \subseteq blobUrls /\ promise' = promise /\ ~isOpen')]_vars

(***************************************************************************)
(* Properties of the crop-rect computation.                                *)
(***************************************************************************)
Leq(a, b) == Less(a, b) \/ Same(a, b)

Computed == geometry # NoGeometry

\* C14: for every selection rect, rendered size and natural size the
\* computed crop rect lies inside the source image: 0 <= cropX <=
\* naturalWidth, 0 <= cropY <= naturalHeight, cropX + cropWidth <=
\* naturalWidth and cropY + cropHeight <= naturalHeight.
C14_CropRectInsideSource ==
    Computed =>
        LET c == geometry.crop
            w == Int2Num(geometry.naturalWidth)
            h == Int2Num(geometry.naturalHeight)
        IN /\ Leq(Int2Num(0), c.x) /\ Leq(c.x, w)
           /\ Leq(Int2Num(0), c.y) /\ Leq(c.y, h)
           /\ Leq(c.width, Sub(w, c.x))
           /\ Leq(c.height, Sub(h, c.y))

\* C15: for every input the computed cropWidth and cropHeight are at least
\* one natural pixel.
C15_CropSizeAtLeastOnePixel ==
    Computed =>
        /\ Leq(Int2Num(1), geometry.crop.width)
        /\ Leq(Int2Num(1), geometry.crop.height)

\* The mapping the crop rect is to equal, one axis at a time, in integers
\* over the denominator `shown` (the rendered size): origin max(0, sel * natural / shown),
\* size min(size * natural / shown, natural - origin).
RefOrigin(sel, natural, shown) ==
    Num(IF sel * natural > 0 THEN sel * natural ELSE 0, shown)

RefSize(sel, size, natural, shown) ==
    LET origin == RefOrigin(sel, natural, shown).n
        rest == natural * shown - origin
    IN Num(IF size * natural < rest THEN size * natural ELSE rest, shown)

IsRect(c, x, y, width, height) ==
    /\ Same(c.x, Int2Num(x))
    /\ Same(c.y, Int2Num(y))
    /\ Same(c.width, Int2Num(width))
    /\ Same(c.height, Int2Num(height))

Scenario(selectionRect, width, height, naturalWidth, naturalHeight) ==
    /\ Computed
    /\ geometry.selectionRect = selectionRect
    /\ geometry.imageRect = [left |-> 0, top |-> 0, width |-> width, height |-> height]
    /\ geometry.naturalWidth = naturalWidth
    /\ geometry.naturalHeight = naturalHeight

\* C16: where the image has a rendered size, the crop rect equals the
\* reference mapping with a scale factor of its own on each axis; natural
\* 1000x600 rendered 500x300 with selection {100,50,100,60} gives
\* {200,100,200,120}, and the overhanging {x:995,w:20} against width 1000
\* keeps x = 995 and shrinks the width to 5.
C16_CropRectIsReferenceMapping ==
    /\ (Computed /\ geometry.imageRect.width > 0 /\ geometry.imageRect.height > 0) =>
           LET g == geometry
               relX == g.selectionRect.left - g.imageRect.left
               relY == g.selectionRect.top - g.imageRect.top
           IN /\ Same(g.crop.x, RefOrigin(relX, g.naturalWidth, g.imageRect.width))
              /\ Same(g.crop.y, RefOrigin(relY, g.naturalHeight, g.imageRect.height))
              /\ Same(g.crop.width,
                      RefSize(relX, g.selectionRect.width, g.naturalWidth, g.imageRect.width))
              /\ Same(g.crop.height,
                      RefSize(relY, g.selectionRect.height, g.naturalHeight, g.imageRect.height))
    /\ Scenario([left |-> 100, top |-> 50, width |-> 100, height |-> 60], 500, 300, 1000, 600)
           => IsRect(geometry.crop, 200, 100, 200, 120)
    /\ Scenario([left |-> 995, top |-> 0, width |-> 20, height |-> 10], 1000, 600, 1000, 600)
           => IsRect(geometry.crop, 995, 0, 5, 10)

\* The handler has mapped the selection {100,50,100,60} of the 1000x600
\* image rendered at 500x300, with a different scale on the two axes' inputs.
C16_Witness ==
    /\ Scenario([left |-> 100, top |-> 50, width |-> 100, height |-> 60], 500, 300, 1000, 600)
    /\ geometry.crop.width.n = 200 * geometry.crop.width.d
    /\ geometry.crop.height.n = 120 * geometry.crop.height.d

\* C17: with a rendered width or height of zero the computation fails with
\* GeometryUnavailable instead of dividing, and no canvas is sized from it.
C17_ZeroRenderedSizeIsGeometryUnavailable ==
    (Computed /\ (geometry.imageRect.width = 0 \/ geometry.imageRect.height = 0))
        => geometry.outcome = "GeometryUnavailable"

(***************************************************************************)
(* Properties of the compositing.                                          *)
(***************************************************************************)
Composited == raster # NoRaster

NoFlip == [horizontal |-> FALSE, vertical |-> FALSE]

Rank(call) ==
    CASE call.op = "save" -> 0
      [] call.op = "translate" -> 1
      [] call.op = "rotate" -> 2
      [] call.op = "scale" /\ call.x = -1 -> 3
      [] call.op = "scale" /\ call.x = 1 -> 4
      [] call.op = "drawImage" -> 5
      [] call.op = "restore" -> 6

Made(call) == \E i \in DOMAIN raster.calls : raster.calls[i] = call

\* C25: the calls on the intermediate context are made in the order
\* translate to the centre, rotate by the rotation angle (where there is
\* one), mirror horizontally if set, mirror vertically if set, and the source
\* rect is drawn after all of them, centred; none is made out of that order.
C25_TransformBuiltInFixedOrder ==
    Composited
    => /\ \A i, j \in DOMAIN raster.calls :
              i < j => Rank(raster.calls[i]) < Rank(raster.calls[j])
       /\ Made(Call("translate", raster.bounding.width, raster.bounding.height))
       /\ Made(Call("rotate", raster.rotation, 0)) <=> raster.rotation # 0
       /\ Made(Call("scale", -1, 1)) <=> raster.flip.horizontal
       /\ Made(Call("scale", 1, -1)) <=> raster.flip.vertical
       /\ Made(Call("drawImage", -raster.cropData.width, -raster.cropData.height))

\* A composite with a quarter turn and both mirrorings, all calls made.
C25_Witness ==
    /\ Composited
    /\ raster.rotation = 90
    /\ raster.flip = [horizontal |-> TRUE, vertical |-> TRUE]
    /\ Len(raster.calls) = 7
    /\ raster.calls[3].op = "rotate"

\* C26: for every crop size and every rotation that is a multiple of 90
\* degrees, the centred window copied into the final canvas lies inside the
\* intermediate canvas: 0 <= offsetX, offsetX + cropWidth <= boundingWidth,
\* and the same for Y (offsets doubled here).
C26_FinalWindowInsideIntermediate ==
    Composited
    => /\ 0 <= raster.offset2.x
       /\ raster.offset2.x + 2 * raster.cropData.width <= 2 * raster.bounding.width
       /\ 0 <= raster.offset2.y
       /\ raster.offset2.y + 2 * raster.cropData.height <= 2 * raster.bounding.height

(***************************************************************************)
(* Further properties of the store and the dialogs.                        *)
(***************************************************************************)
\* The steps in which a save handler hands a new object URL to save: the
\* dialog's handleSave, and the earlier provider's handleSave(blob).
SaveHandlerDelivers ==
    \/ \E t \in BagToSet(tasks), cd \in CropDatas : DialogSaves(t, cd)
    \/ \E t \in BagToSet(tasks) : dialogToBlob(t, TRUE)

\* C11: every object URL a save handler creates is in the tracked set by the
\* time the handler has passed it to save, so no URL is delivered untracked.
C11_HandleTrackedBeforeDelivered ==
    [][SaveHandlerDelivers => created' \in blobUrls']_vars

\* C12: revokeBlobUrls called twice in a row leaves the tracked set empty
\* after each call, and the second call finds nothing to revoke and changes
\* nothing.
C12_RevokeTwiceIsRevokeOnce ==
    LET once == revokeBlobUrls(World)
        twice == revokeBlobUrls(once)
    IN /\ once.blobUrls = {}
       /\ blobUrls \subseteq once.revoked
       /\ twice.blobUrls = {}
       /\ twice = once

\* In a session still pending, the URL that was tracked has been revoked and
\* the tracked set is empty, where a second revokeBlobUrls may follow.
C12_Witness ==
    /\ isOpen
    /\ promise[1].state = "pending"
    /\ promise[2].state = "uncreated"
    /\ AppHandles \subseteq revoked
    /\ blobUrls = {}

\* An error whose message is made from the URL, as the image loader's is.
Carries(v, url) ==
    /\ v.type = "error"
    /\ \E prefix \in {"Failed to load image from URL: "} : v.message = prefix \o url

\* C13: when the source image fails to load during save, the pending promise
\* is rejected with an error carrying the image URL, the store becomes Closed
\* and the tracked set is empty.
C13_LoadFailureRejectsWithUrl ==
    [][(/\ isOpen
        /\ pendingReject # NoPromise
        /\ \E t \in BagToSet(tasks) : CropThrows(t) \/ CropNull(t))
       => (/\ promise'[pendingReject].state = "rejected"
           /\ Carries(promise'[pendingReject].value, imageUrl)
           /\ ~isOpen'
           /\ blobUrls' = {})]_vars

\* config.imageFormat ?? 'image/png' and config.imageQuality ?? 0.92.
EncodingOf(cfg) ==
    [imageFormat |-> IF imageFormat(cfg) = Undefined THEN "image/png" ELSE imageFormat(cfg),
     imageQuality |-> IF imageQuality(cfg) = Undefined THEN "0.92" ELSE imageQuality(cfg)]

\* C19: the blob the dialog's save handler saves was encoded with the
\* session's config.imageFormat and config.imageQuality, or with image/png
\* and 0.92 where the config omits them.
C19_EncodedAsConfigured ==
    [][\A t \in BagToSet(tasks), cd \in CropDatas :
          (isOpen /\ DialogSaves(t, cd)) => encoded'[created'] = EncodingOf(config)]_vars

\* C20: when the user dismisses the dialog in an Open session, the caller's
\* promise is rejected with an Error whose message is 'Cancelled'.
C20_DismissRejectsWithCancelled ==
    [][(isOpen /\ pendingReject # NoPromise /\ handleOpenChange(FALSE))
       => (/\ promise'[pendingReject].state = "rejected"
           /\ promise'[pendingReject].value = ErrorValue("Cancelled"))]_vars

(***************************************************************************)
(* Properties of the store's bookkeeping across sessions.                  *)
(***************************************************************************)
\* The steps in which open() is called.
OpenCall == \E url \in Urls, options \in OptionsArgs : resizeImage(url, options)

\* C24: open() starts the new session with an empty tracked set: after the
\* call blobUrls is empty and every handle tracked before it, those of a
\* superseded session included, has been revoked.
C24_OpenStartsWithFreshTrackedSet ==
    [][OpenCall => (blobUrls' = {} /\ blobUrls \subseteq revoked')]_vars

\* The second session has just superseded the first, which is still pending,
\* and the handle that was tracked in the first is revoked and untracked.
C24_Witness ==
    /\ isOpen
    /\ promise[1].state = "pending"
    /\ promise[2].state = "pending"
    /\ pendingResolve = 2
    /\ AppHandles \subseteq revoked
    /\ blobUrls = {}

\* C28: in every reachable state isOpen is true exactly when pendingResolve,
\* pendingReject and imageUrl are all non-null; the store holds at most one
\* pair of continuations, those of one promise, and none while Closed.
C28_SingleSession ==
    /\ isOpen <=> (pendingResolve # NoPromise /\ pendingReject # NoPromise /\ imageUrl # Null)
    /\ pendingResolve = pendingReject
    /\ ~isOpen => (pendingResolve = NoPromise /\ pendingReject = NoPromise)

\* The first session was saved and closed, and the second one is open and
\* holds its own pair of continuations.
C28_Witness ==
    /\ promise[1].state = "fulfilled"
    /\ isOpen
    /\ pendingResolve = 2
    /\ pendingReject = 2
    /\ imageUrl = "a.jpg"

\* C29: in every reachable state, open() called there replaces classNames
\* and config with the arguments of that call, {} where one is omitted, and
\* save, cancel, close, addBlobUrl and revokeBlobUrls called there leave both
\* as they are.
C29_OverridesSetOnlyByOpen ==
    /\ \A url \in Urls, options \in OptionsArgs :
          LET w == open(World, url, options.classNames, options.config)
          IN /\ w.classNames = (IF options.classNames = Undefined
                                THEN EmptyObject ELSE options.classNames)
             /\ w.config = (IF options.config = Undefined
                            THEN EmptyObject ELSE options.config)
    /\ \A h \in Handles, e \in {ErrApp, ErrUserCancelled} :
          \A w \in {save(World, h), cancel(World, e), close(World),
                    addBlobUrl(World, h), revokeBlobUrls(World)} :
              w.classNames = classNames /\ w.config = config

\* The session opened with overrides has been saved and closed; the store
\* still holds its overrides, where a call of open without any may follow.
C29_Witness ==
    /\ promise[1].state = "fulfilled"
    /\ promise[2].state = "uncreated"
    /\ ~isOpen
    /\ classNames = "cn"
    /\ config = "cfg"

(***************************************************************************)
(* Properties of the dialog's effects and of its save handler.             *)
(***************************************************************************)
\* C27: the cleanup of the dialog's effect revokes all tracked blob URLs
\* when the dialog closes: the render that follows a change of isOpen from
\* true to false revokes every tracked URL and empties the tracked set, and
\* the render that follows a change from false to true revokes nothing.
C27_CleanupRevokesOnClose ==
    [][Render
       => IF rendered.isOpen /\ ~isOpen
          THEN blobUrls' = {} /\ blobUrls \subseteq revoked'
          ELSE UNCHANGED <<blobUrls, revoked>>]_vars

\* The steps in which a save handler takes one of its failure paths: those
\* of the dialog's handleSave, all of which call cancel, and those of the
\* earlier dialog that is handed onSave and onCancel as props.
FailurePath ==
    \/ \E e \in Errors \ {ErrApp, ErrUserCancelled} : CancelCall(e)
    \/ \E t \in BagToSet(tasks) : dialogImageFailed(t) \/ dialogToBlob(t, FALSE)

\* C22: every failure path of a dialog's save handler taken in an Open
\* session ends the session: the session's promise is rejected, the store is
\* Closed and the tracked set is empty.
C22_FailureEndsSession ==
    [][(isOpen /\ pendingReject # NoPromise /\ FailurePath)
       => (/\ promise'[pendingReject].state = "rejected"
           /\ ~isOpen'
           /\ blobUrls' = {})]_vars

C21_MetadataMatchesImage ==
    [][\A t \in BagToSet(tasks) : DialogSaves(t, engine) => t.image = engine]_vars

(***************************************************************************)
(* Properties of revokeBlobUrls where a revocation throws.                 *)
(***************************************************************************)
\* C30: in every reachable state where a tracked URL's revocation throws,
\* revokeBlobUrls called there still revokes the other tracked URLs and
\* leaves the tracked set empty, and an open or a cancel called there still
\* runs to its end: the new session is pending and Open, the cancelled one
\* is rejected with the reason given and the store is Closed.
C30_ThrowingRevocationIsContained ==
    (blobUrls \cap throwing # {})
    => /\ LET w == revokeBlobUrls(World)
          IN w.blobUrls = {} /\ (blobUrls \ throwing) \subseteq w.revoked
       /\ \A url \in Urls, options \in OptionsArgs :
             NextPromise(World) <= MaxSessions
             => LET w == open(World, url, options.classNames, options.config)
                IN /\ w.blobUrls = {}
                   /\ (blobUrls \ throwing) \subseteq w.revoked
                   /\ w.isOpen
                   /\ w.imageUrl = url
                   /\ w.pendingResolve = NextPromise(World)
                   /\ w.pendingReject = NextPromise(World)
                   /\ w.promise[NextPromise(World)].state = "pending"
       /\ \A e \in Errors :
             LET w == cancel(World, e)
             IN /\ w.blobUrls = {}
                /\ (blobUrls \ throwing) \subseteq w.revoked
                /\ ~w.isOpen
                /\ w.pendingResolve = NoPromise
                /\ w.pendingReject = NoPromise
                /\ pendingReject # NoPromise
                   => (/\ w.promise[pendingReject].state = "rejected"
                       /\ w.promise[pendingReject].value = ErrorValue(e))

\* The second session was cancelled by the application; the URL the dialog
\* made for the first is revoked while the application's own, whose
\* revocation throws, is not, and nothing is tracked.
C30_Witness ==
    /\ throwing = AppHandles
    /\ promise[1].state = "fulfilled"
    /\ promise[2].state = "rejected"
    /\ promise[2].value = ErrorValue(ErrApp)
    /\ ~isOpen
    /\ blobUrls = {}
    /\ 1 \in revoked
    /\ AppHandles \cap revoked = {}

====
